---- MODULE Spec2Model ----
(***************************************************************************)
(* Model of the temporal planner of busoc/assist (src/schedule.go,         *)
(* src/periods.go, src/settings.go).                                       *)
(*                                                                         *)
(* Instants are integers (one unit = one second); ZeroTime is the zero     *)
(* value of time.Time.  Sample timestamps start at FirstTime, far enough   *)
(* from ZeroTime that no computed instant collides with the zero value.    *)
(* Durations are integers in the same unit.                                *)
(***************************************************************************)
EXTENDS Integers, Sequences, FiniteSets, TLC

VARIABLES
    pc,        \* "reading" | "loaded" | "filtered" | "scheduled" | "failed"
    e, a, x,   \* listPeriods: the open eclipse, saa and aurora periods
    last,      \* listPeriods: timestamp of the previous row
    rows,      \* number of rows read so far
    Eclipses, Saas, Auroras, Ignore,   \* the fields of Schedule
    base,      \* the instant given to the last Filter call
    prev,      \* history: the period lists Filter was applied to
    roc, cer, aur,   \* the option bundles given to Schedule()
    rs, as, cs,      \* Schedule(): the ROC, CER and ACS entries
    es,              \* Schedule(): the merged entries returned
    err,             \* the error returned ("" when none)
    recv, arg,       \* Period.Intersect: the receiver p and the argument o
    delta            \* Period.Intersect: the value returned

vars == <<pc, e, a, x, last, rows, Eclipses, Saas, Auroras, Ignore,
          base, prev, roc, cer, aur, rs, as, cs, es, err, recv, arg, delta>>

\* The variables of a call of Period.Intersect on its own.
callVars == <<recv, arg, delta>>

(***************************************************************************)
(* Bounds                                                                  *)
(***************************************************************************)
MaxRows == 5
FirstTime == 100
MaxEclipses == 2
MaxSaas == 2
MaxAuroras == 1
MaxBase == 3

ZeroTime == 0

\* The spacing of the rows of a trajectory (Assist.Default), and the
\* spacings of a stream that skips rows.
Resolution == 1

Steps == {Resolution, 2 * Resolution}

(***************************************************************************)
(* Period (src/periods.go)                                                 *)
(***************************************************************************)
Period(label, starts, ends) == [Label |-> label, Starts |-> starts, Ends |-> ends]

ZeroPeriod == Period("", ZeroTime, ZeroTime)

Duration(p) == p.Ends - p.Starts

PeriodIsZero(p) == p.Starts = ZeroTime /\ p.Ends = ZeroTime

Contains(p, o) ==
    IF o.Starts < p.Starts THEN FALSE
    ELSE o.Starts + Duration(o) < p.Ends

Overlaps(p, o) == ~(o.Starts > p.Ends \/ o.Ends < p.Starts)

Intersect(p, o) ==
    IF ~Overlaps(p, o) THEN 0
    ELSE IF Contains(p, o) THEN Duration(o)
    ELSE IF p.Starts > o.Starts THEN o.Ends - p.Starts
    ELSE p.Ends - o.Starts

(***************************************************************************)
(* sort.Slice(ps, less by Starts): the lists sorted here never hold two    *)
(* periods with the same Starts, so the result is the unique ordering.     *)
(***************************************************************************)
RECURSIVE InsertByStarts(_, _)
InsertByStarts(p, ps) ==
    IF ps = <<>> THEN <<p>>
    ELSE IF p.Starts < Head(ps).Starts THEN <<p>> \o ps
    ELSE <<Head(ps)>> \o InsertByStarts(p, Tail(ps))

\* Mutant: the comparison of the sort reversed.
RECURSIVE SortByStartsDesc(_)
SortByStartsDesc(ps) ==
    IF ps = <<>> THEN <<>>
    ELSE LET m == CHOOSE i \in 1..Len(ps) : \A j \in 1..Len(ps) : ps[j].Starts <= ps[i].Starts
         IN  <<ps[m]>> \o SortByStartsDesc(SubSeq(ps, 1, m - 1) \o SubSeq(ps, m + 1, Len(ps)))

RECURSIVE SortByStarts(_)
SortByStarts(ps) ==
    IF ps = <<>> THEN <<>>
    ELSE InsertByStarts(ps[Len(ps)], SortByStarts(SubSeq(ps, 1, Len(ps) - 1)))

(***************************************************************************)
(* Timeline extractor: Schedule.listPeriods                                *)
(***************************************************************************)
FlagValues == {"1", "0", "-"}

isEnterPeriod(r) == r = "1" \/ r = "true" \/ r = "on"

isLeavePeriod(r) == r = "0" \/ r = "false" \/ r = "off"

\* Mutant: the Ends of a closed period taken two resolutions before the
\* closing row.
PeriodEndResolution(lastT, when) == when - 2 * Resolution

\* Mutant: the Ends of a closed period taken from the closing row itself.
PeriodEndAtRow(lastT, when) == when

\* The Ends of a period closed by the row stamped when: "Ends: last", the
\* timestamp of the row before.
PeriodEnd(lastT, when) == lastT

\* One iteration of the loop of listPeriods on a well-formed row:
\* when is the row's timestamp, inArea the value of area.Contains(lat, lng),
\* ecl and saa the two flag columns.
ReadRow(when, inArea, ecl, saa) ==
    LET openX  == inArea /\ isEnterPeriod(ecl) /\ PeriodIsZero(x)
        x1     == IF openX THEN [x EXCEPT !.Starts = when] ELSE x
        closeX == (~inArea \/ isLeavePeriod(ecl)) /\ ~PeriodIsZero(x1)
        openE  == isEnterPeriod(ecl) /\ PeriodIsZero(e)
        e1     == IF openE THEN [e EXCEPT !.Starts = when] ELSE e
        closeE == isLeavePeriod(ecl) /\ ~PeriodIsZero(e1)
        openA  == isEnterPeriod(saa) /\ PeriodIsZero(a)
        a1     == IF openA THEN [a EXCEPT !.Starts = when] ELSE a
        closeA == isLeavePeriod(saa) /\ ~PeriodIsZero(a1)
    IN  /\ Auroras' = IF closeX THEN Append(Auroras, Period("aurora", x1.Starts, PeriodEnd(last, when)))
                      ELSE Auroras
        /\ x' = IF closeX THEN ZeroPeriod ELSE x1
        /\ Eclipses' = IF closeE THEN Append(Eclipses, Period("eclipse", e1.Starts, PeriodEnd(last, when)))
                       ELSE Eclipses
        /\ e' = IF closeE THEN ZeroPeriod ELSE e1
        /\ Saas' = IF closeA THEN Append(Saas, Period("saa", a1.Starts, PeriodEnd(last, when)))
                   ELSE Saas
        /\ a' = IF closeA THEN ZeroPeriod ELSE a1
        /\ last' = when
        /\ rows' = rows + 1

\* The timestamp of the next row: strictly after the previous one.
NextTimes(steps) == IF rows = 0 THEN {FirstTime} ELSE {last + d : d \in steps}

\* Reading one more row, of a stream of at most maxRows rows whose timestamps
\* increase by one of steps, and whose positions are inside the area or not
\* according to areaVals.
ReadIn(maxRows, steps, areaVals) ==
    /\ pc = "reading"
    /\ rows < maxRows
    /\ \E when \in NextTimes(steps), inArea \in areaVals, ecl \in FlagValues, saa \in FlagValues :
          /\ isEnterPeriod(ecl) /\ PeriodIsZero(e) => Len(Eclipses) < MaxEclipses
          /\ isEnterPeriod(saa) /\ PeriodIsZero(a) => Len(Saas) < MaxSaas
          /\ inArea /\ isEnterPeriod(ecl) /\ PeriodIsZero(x) => Len(Auroras) < MaxAuroras
          /\ ReadRow(when, inArea, ecl, saa)
    /\ UNCHANGED <<pc, Ignore, base, prev, roc, cer, aur, rs, as, cs, es, err>>
    /\ UNCHANGED callVars

Read == ReadIn(MaxRows, Steps, BOOLEAN)

\* A row that csv.Reader, parseLatLng or time.Parse rejects: listPeriods
\* returns the error at once.
ReadBadRow ==
    /\ pc = "reading"
    /\ rows < MaxRows
    /\ pc' = "failed"
    /\ err' = "BadInput"
    /\ UNCHANGED <<e, a, x, last, rows, Eclipses, Saas, Auroras, Ignore,
                   base, prev, roc, cer, aur, rs, as, cs, es>>
    /\ UNCHANGED callVars

\* Mutant: a schedule without eclipse is refused, whatever its SAAs.
NoEclipses(ecls, saas) == Len(ecls) = 0

\* if len(s.Eclipses) == 0 && len(s.Saas) == 0
NoPeriods(ecls, saas) == Len(ecls) = 0 /\ Len(saas) = 0

\* Mutant: at io.EOF the eclipse still open is closed and appended.
EndOfStreamFlush ==
    /\ pc = "reading"
    /\ pc' = "loaded"
    /\ err' = ""
    /\ Eclipses' = SortByStarts(IF PeriodIsZero(e) THEN Eclipses
                                ELSE Append(Eclipses, Period("eclipse", e.Starts, last)))
    /\ Saas' = SortByStarts(Saas)
    /\ Auroras' = SortByStarts(Auroras)
    /\ e' = ZeroPeriod /\ a' = ZeroPeriod /\ x' = ZeroPeriod
    /\ last' = ZeroTime /\ rows' = 0
    /\ UNCHANGED <<Ignore, base, prev, roc, cer, aur, rs, as, cs, es>>
    /\ UNCHANGED callVars

\* io.EOF: the end of listPeriods.
EndOfStream ==
    /\ pc = "reading"
    /\ IF NoPeriods(Eclipses, Saas)
       THEN /\ pc' = "failed"
            /\ err' = "NoPeriods"
            /\ UNCHANGED <<Eclipses, Saas, Auroras>>
       ELSE /\ pc' = "loaded"
            /\ err' = ""
            /\ Eclipses' = SortByStarts(Eclipses)
            /\ Saas' = SortByStarts(Saas)
            /\ Auroras' = SortByStarts(Auroras)
    \* the locals of listPeriods end with the call
    /\ e' = ZeroPeriod /\ a' = ZeroPeriod /\ x' = ZeroPeriod
    /\ last' = ZeroTime /\ rows' = 0
    /\ UNCHANGED <<Ignore, base, prev, roc, cer, aur, rs, as, cs, es>>
    /\ UNCHANGED callVars

(***************************************************************************)
(* Filter: Schedule.Filter                                                 *)
(***************************************************************************)
Sched(ecls, saas, aurs, ign) ==
    [Ignore |-> ign, Eclipses |-> ecls, Saas |-> saas, Auroras |-> aurs]

\* Mutant: the loop starts at the second period.
RetainTail(ps, t) ==
    IF ps = <<>> THEN ps ELSE SelectSeq(Tail(ps), LAMBDA p : p.Starts > t)

\* Mutant: a period starting at t is kept.
RetainFrom(ps, t) == SelectSeq(ps, LAMBDA p : p.Starts >= t)

\* The loops "if p.Starts.After(t) { keep }" of Filter.
Retain(ps, t) == SelectSeq(ps, LAMBDA p : p.Starts > t)

\* The else branch of the eclipse loop, then sort.Slice(skip, ...).
Skipped(ps, t) == SortByStarts(SelectSeq(ps, LAMBDA p : ~(p.Starts > t)))

\* sort.Search(n, f): binary search for the smallest index in [0, n) at
\* which f holds, f being called on 0-based indices.
RECURSIVE SearchLoop(_, _, _, _, _)
SearchLoop(i, j, skip, t, au) ==
    IF i < j
    THEN LET h  == (i + j) \div 2
             ec == skip[h + 1]
             f  == ec.Starts < t /\ ec.Starts < au.Starts /\ ec.Ends > au.Starts
         IN  IF ~f THEN SearchLoop(h + 1, j, skip, t, au)
             ELSE SearchLoop(i, h, skip, t, au)
    ELSE i

Search(skip, t, au) == SearchLoop(0, Len(skip), skip, t, au)

\* The body of the aurora loop of Filter: TRUE when the aurora is appended.
KeepAurora(skip, t, au) ==
    LET xi == Search(skip, t, au)
    IN  IF xi < Len(skip) /\ ~(skip[xi + 1].Starts > t) THEN FALSE
        ELSE au.Starts > t

FilterSchedule(s, t) ==
    IF t = ZeroTime THEN s
    ELSE LET skip == Skipped(s.Eclipses, t)
         IN  Sched(Retain(s.Eclipses, t), Retain(s.Saas, t),
                   SelectSeq(s.Auroras, LAMBDA au : KeepAurora(skip, t, au)),
                   s.Ignore)

Current == Sched(Eclipses, Saas, Auroras, Ignore)

BaseTimes == {ZeroTime} \cup {FirstTime + k : k \in 0..MaxBase}

\* Assist.LoadAndFilter: the loaded schedule is replaced by Filter(base).
Filter ==
    /\ pc = "loaded"
    /\ \E t \in BaseTimes :
          LET c == FilterSchedule(Current, t)
          IN  /\ base' = t
              /\ prev' = Current
              /\ Eclipses' = c.Eclipses
              /\ Saas' = c.Saas
              /\ Auroras' = c.Auroras
              /\ Ignore' = c.Ignore
    /\ pc' = "filtered"
    /\ UNCHANGED <<e, a, x, last, rows, roc, cer, aur, rs, as, cs, es, err>>
    /\ UNCHANGED callVars

\* The caller's "s.Ignore = ignore" (the -ignore flag).
SetIgnore ==
    /\ pc = "loaded"
    /\ ~Ignore
    /\ Ignore' = TRUE
    /\ UNCHANGED <<pc, e, a, x, last, rows, Eclipses, Saas, Auroras,
                   base, prev, roc, cer, aur, rs, as, cs, es, err>>
    /\ UNCHANGED callVars

(***************************************************************************)
(* Entries and option bundles (src/schedule.go, src/settings.go)           *)
(***************************************************************************)
ROCON == "ROCON"
ROCOFF == "ROCOFF"
CERON == "CERON"
CEROFF == "CEROFF"
ACSON == "ACSON"
ACSOFF == "ACSOFF"

\* time.Second, in the unit of the model
Second == 1

Entry(label, when, p) == [Label |-> label, When |-> when, Warning |-> FALSE, Period |-> p]

ZeroEntry == Entry("", ZeroTime, ZeroPeriod)

EntryIsZero(en) == en.When = ZeroTime

ZeroRoc == [TimeSAA |-> 0, TimeAZM |-> 0, TimeOn |-> 0, TimeOff |-> 0,
            TimeBetween |-> 0, WaitBeforeOn |-> 0]

ZeroCer == [SwitchTime |-> 0, SaaCrossingTime |-> 0, BeforeSaa |-> 0, AfterSaa |-> 0,
            BeforeRoc |-> 0, AfterRoc |-> 0, TimeOn |-> 0, TimeOff |-> 0]

ZeroAur == [Night |-> 0, Time |-> 0]

\* RocOption.IsEmpty, CerOption.IsEmpty, AuroraOption.IsEmpty: a
\* zero-initialised bundle means that the family is disabled.
RocIsEmpty(o) == o = ZeroRoc

CerIsEmpty(o) == o = ZeroCer

AurIsEmpty(o) == o = ZeroAur

Accept(o, p) == Duration(p) >= o.Night + 2 * o.Time

isBetween(f, t, d) == f < t /\ (f = d \/ t = d \/ (f < d /\ t > d))

(***************************************************************************)
(* The scans of isCrossingList, isCrossing and isNear                      *)
(***************************************************************************)
MinOf(S) == CHOOSE i \in S : \A j \in S : i <= j

\* Number of periods the loop "for _, a := range as" looks at before its
\* "if a.Starts.After(e.Ends) { break }" (the breaking one is looked at).
Scanned(ec, ps) ==
    LET stops == {i \in 1..Len(ps) : ps[i].Starts > ec.Ends}
    IN  IF stops = {} THEN Len(ps) ELSE MinOf(stops)

\* In the three scans below, predicate[i] is the value of the callback
\* "predicate" on the i-th element of the list.
isCrossingList(ec, ps, predicate) ==
    LET hits == {i \in 1..Scanned(ec, ps) : predicate[i]}
        n    == Cardinality(hits)
        nth[k \in 1..n] ==
            CHOOSE i \in hits : Cardinality({j \in hits : j < i}) = k - 1
    IN  [k \in 1..n |-> ps[nth[k]]]

isCrossing(ec, ps, predicate) ==
    LET hits == {i \in 1..Scanned(ec, ps) : predicate[i]}
    IN  IF hits = {} THEN ZeroPeriod ELSE ps[MinOf(hits)]

\* Number of entries isNear looks at before "if e.When.After(a.Ends) { break }".
ScannedEntries(p, ens) ==
    LET stops == {i \in 1..Len(ens) : ens[i].When > p.Ends}
    IN  IF stops = {} THEN Len(ens) ELSE MinOf(stops)

isNear(p, ens, predicate) ==
    LET hits == {i \in 1..ScannedEntries(p, ens) : predicate[i]}
    IN  IF hits = {} THEN ZeroEntry ELSE ens[MinOf(hits)]

(***************************************************************************)
(* ROC planner                                                             *)
(***************************************************************************)
scheduleROCON(ec, s, o) ==
    LET azm   == o.TimeAZM
        on    == o.TimeOn
        w0    == ec.Starts + o.WaitBeforeOn
        enter == s.Starts
        exit  == s.Starts + 2 * azm
        w1    == IF w0 < s.Starts /\ w0 + on > s.Starts + azm
                 THEN s.Starts + azm ELSE w0
        w2    == IF isBetween(s.Starts, s.Starts + azm, w1)
                    \/ isBetween(s.Starts, s.Starts + azm, w1 + on)
                 THEN s.Starts + azm ELSE w1
        w3    == IF w2 < s.Ends /\ w2 + on > s.Ends + azm
                 THEN s.Ends + azm ELSE w2
        w4    == IF isBetween(s.Ends, s.Ends + azm, w3)
                    \/ isBetween(s.Ends, s.Ends + azm, w3 + on - Second)
                 THEN s.Ends + azm ELSE w3
    IN  IF PeriodIsZero(s) THEN Entry(ROCON, w0, ec)
        ELSE IF o.TimeSAA # 0 /\ Duration(s) <= o.TimeSAA
        THEN IF isBetween(enter, exit, w0) \/ isBetween(enter, exit, w0 + on)
             THEN Entry(ROCON, exit, ec)
             ELSE Entry(ROCON, w0, ec)
        ELSE Entry(ROCON, w4, ec)

scheduleROCOFF(ec, s, o) ==
    LET azm   == o.TimeAZM
        off   == o.TimeOff
        w0    == ec.Ends - off
        enter == s.Starts
        exit  == s.Starts + 2 * azm
        w1    == IF w0 < s.Ends /\ w0 + off > s.Ends + azm
                 THEN s.Ends + azm ELSE w0
        w2    == IF isBetween(s.Ends, s.Ends + azm, w1)
                    \/ isBetween(s.Ends, s.Ends + azm, w1 + off)
                 THEN s.Ends - off ELSE w1
        w3    == IF w2 < s.Starts /\ w2 + off > s.Starts + azm
                 THEN s.Starts - off ELSE w2
        w4    == IF isBetween(s.Starts, s.Starts + azm - Second, w3)
                    \/ isBetween(s.Starts, s.Starts + azm, w3 + off)
                 THEN s.Starts - off ELSE w3
    IN  IF PeriodIsZero(s) THEN Entry(ROCOFF, w0, ec)
        ELSE IF o.TimeSAA > 0 /\ Duration(s) <= o.TimeSAA
        THEN IF isBetween(enter, exit, w0) \/ isBetween(enter, exit, w0 + off)
             THEN Entry(ROCOFF, enter - off, ec)
             ELSE Entry(ROCOFF, w0, ec)
        ELSE Entry(ROCOFF, w4, ec)

\* The SAAs crossing the eclipse, and the two that scheduleROC keeps.
CrossingSaas(ec, saas) == isCrossingList(ec, saas, [i \in 1..Len(saas) |-> Overlaps(ec, saas[i])])

FirstSaa(ec, saas) ==
    LET ps == CrossingSaas(ec, saas) IN IF ps = <<>> THEN ZeroPeriod ELSE ps[1]

LastSaa(ec, saas) ==
    LET ps == CrossingSaas(ec, saas) IN IF ps = <<>> THEN ZeroPeriod ELSE ps[Len(ps)]

\* Mutant: a gap equal to TimeBetween is accepted.
TooCloseStrict(rocon, rocoff, o) ==
    o.TimeBetween # 0 /\ rocoff.When - (rocon.When + o.TimeOn) < o.TimeBetween

\* Mutant: the two entries swapped in the comparisons.
TooShortSwapped(rocon, rocoff, o) ==
    rocon.When < rocoff.When \/ rocon.When - rocoff.When <= o.TimeOn

\* The two validations of the body of the loop of scheduleROC.
TooClose(rocon, rocoff, o) ==
    o.TimeBetween # 0 /\ rocoff.When - (rocon.When + o.TimeOn) <= o.TimeBetween

TooShort(rocon, rocoff, o) ==
    rocoff.When < rocon.When \/ rocoff.When - rocon.When <= o.TimeOn

\* Mutant: in permissive mode a rejected pair is emitted without warning.
rocPairUnmarked(ec, saas, o, ignore) ==
    LET rocon  == scheduleROCON(ec, FirstSaa(ec, saas), o)
        rocoff == scheduleROCOFF(ec, LastSaa(ec, saas), o)
    IN  IF (TooClose(rocon, rocoff, o) \/ TooShort(rocon, rocoff, o)) /\ ~ignore
        THEN <<>>
        ELSE <<rocon, rocoff>>

\* One iteration of the loop of scheduleROC: the entries appended for ec.
rocPair(ec, saas, o, ignore) ==
    LET rocon  == scheduleROCON(ec, FirstSaa(ec, saas), o)
        rocoff == scheduleROCOFF(ec, LastSaa(ec, saas), o)
    IN  IF TooClose(rocon, rocoff, o) \/ TooShort(rocon, rocoff, o)
        THEN IF ~ignore THEN <<>>
             ELSE <<[rocon EXCEPT !.Warning = TRUE], [rocoff EXCEPT !.Warning = TRUE]>>
        ELSE <<rocon, rocoff>>

RECURSIVE scheduleROC(_, _, _, _)
scheduleROC(ecls, saas, o, ignore) ==
    IF ecls = <<>> THEN <<>>
    ELSE rocPair(Head(ecls), saas, o, ignore) \o scheduleROC(Tail(ecls), saas, o, ignore)

ScheduleROC(s, o) ==
    IF RocIsEmpty(o) THEN <<>> ELSE scheduleROC(s.Eclipses, s.Saas, o, s.Ignore)

(***************************************************************************)
(* CER planner                                                             *)
(***************************************************************************)
\* The "switch r.Label" of scheduleInsideCER.
rocDuration(r, o) ==
    IF r.Label = ROCOFF THEN o.TimeOff
    ELSE IF r.Label = ROCON THEN o.TimeOn
    ELSE 0

\* for i := len(rs) - 1; i >= 0; i-- { ... }: the CERON instant after the
\* iterations i (1-based), i-1, ..., 1.
RECURSIVE ceronWalk(_, _, _, _, _)
ceronWalk(i, when, rocs, c, o) ==
    IF i < 1 THEN when
    ELSE LET r  == rocs[i]
             dr == rocDuration(r, o)
         IN  IF isBetween(r.When, r.When + dr, when)
                \/ isBetween(r.When, r.When + dr, when + c.TimeOn)
             THEN ceronWalk(i - 1, r.When - c.BeforeRoc, rocs, c, o)
             ELSE ceronWalk(i - 1, when, rocs, c, o)

\* for i := 0; i < len(rs); i++ { ... }: the CEROFF instant after the
\* iterations i (1-based), i+1, ..., len(rs).
RECURSIVE ceroffWalk(_, _, _, _, _)
ceroffWalk(i, when, rocs, c, o) ==
    IF i > Len(rocs) THEN when
    ELSE LET r  == rocs[i]
             dr == rocDuration(r, o)
         IN  IF isBetween(r.When, r.When + dr, when)
                \/ isBetween(r.When, r.When + dr, when + c.TimeOff)
             THEN ceroffWalk(i + 1, r.When + dr + c.AfterRoc, rocs, c, o)
             ELSE ceroffWalk(i + 1, when, rocs, c, o)

\* The period p of the body of the loop of scheduleInsideCER.
saaSpan(ec, saas) ==
    LET ps == isCrossingList(ec, saas, [i \in 1..Len(saas) |-> Overlaps(ec, saas[i])])
    IN  IF Len(ps) = 0 THEN ZeroPeriod
        ELSE IF Len(ps) = 1 THEN ps[1]
        ELSE Period("", ps[1].Starts, ps[Len(ps)].Ends)

\* TRUE when the body of the loop of scheduleInsideCER reaches "continue".
insideSkips(ec, saas, c) ==
    LET p == saaSpan(ec, saas)
    IN  \/ Len(isCrossingList(ec, saas, [i \in 1..Len(saas) |-> Overlaps(ec, saas[i])])) = 0
        \/ Duration(p) < c.SaaCrossingTime
        \/ Intersect(ec, p) < c.SaaCrossingTime

\* One iteration of the loop of scheduleInsideCER.
insidePair(ec, saas, c, o, rocs) ==
    LET p  == saaSpan(ec, saas)
        cn == Entry(CERON, ceronWalk(Len(rocs), p.Starts - c.BeforeSaa, rocs, c, o), p)
        cf == Entry(CEROFF, ceroffWalk(1, p.Ends + c.AfterSaa, rocs, c, o), p)
    IN  IF insideSkips(ec, saas, c) THEN <<>> ELSE <<cn, cf>>

RECURSIVE scheduleInsideCER(_, _, _, _, _)
scheduleInsideCER(ecls, saas, c, o, rocs) ==
    IF ecls = <<>> THEN <<>>
    ELSE insidePair(Head(ecls), saas, c, o, rocs)
         \o scheduleInsideCER(Tail(ecls), saas, c, o, rocs)

\* The predicate of scheduleOutsideCER and of skipEclipses.
crosses(d, ec, p) == d = 0 \/ Intersect(ec, p) > d

\* TRUE when some SAA crosses the eclipse for longer than d.
isCrossed(ec, saas, d) ==
    ~PeriodIsZero(isCrossing(ec, saas, [i \in 1..Len(saas) |-> crosses(d, ec, saas[i])]))

\* Mutant: no eclipse is skipped.
skipEclipsesNone(ecls, saas, cross, d) == ecls

skipEclipses(ecls, saas, cross, d) ==
    LET flips == {i \in 1..Len(ecls) : isCrossed(ecls[i], saas, d) # cross}
    IN  IF flips = {} THEN <<>> ELSE SubSeq(ecls, MinOf(flips), Len(ecls))

RECURSIVE outsideLoop(_, _, _)
outsideLoop(ecls, saas, c) ==
    IF ecls = <<>> THEN <<>>
    ELSE LET ec       == Head(ecls)
             crossing == isCrossed(ec, saas, c.SaaCrossingTime)
             en       == IF crossing
                         THEN Entry(CERON, ec.Starts - c.TimeOn, ZeroPeriod)
                         ELSE Entry(CEROFF, ec.Starts - c.TimeOff, ec)
         IN  <<en>> \o outsideLoop(skipEclipses(Tail(ecls), saas, crossing,
                                                c.SaaCrossingTime), saas, c)

scheduleOutsideCER(s, c) == outsideLoop(s.Eclipses, s.Saas, c)

\* ScheduleCER: the entries, and the error ("" when none).
ScheduleCER(s, c, o, rocs) ==
    IF CerIsEmpty(c) THEN [entries |-> <<>>, err |-> ""]
    ELSE IF c.SwitchTime = 0
    THEN IF Len(rocs) = 0
         THEN [entries |-> <<>>, err |-> "CER: can not schedule without ROC"]
         ELSE [entries |-> scheduleInsideCER(s.Eclipses, s.Saas, c, o, rocs), err |-> ""]
    ELSE [entries |-> scheduleOutsideCER(s, c), err |-> ""]

(***************************************************************************)
(* ACS planner                                                             *)
(***************************************************************************)
\* Mutant: ACSON is planned without looking at the ROCOFF entries.
scheduleACSONAnyway(p, rocs, u, o) ==
    LET starts == p.Starts - o.TimeOn
        ends   == p.Starts + (o.WaitBeforeOn + o.TimeOn)
        rocon  == isNear(p, rocs, [i \in 1..Len(rocs) |->
                      IF rocs[i].Label # ROCON THEN FALSE
                      ELSE rocs[i].When > starts /\ rocs[i].When < ends])
        direct == EntryIsZero(rocon) \/ p.Starts > rocon.When + o.TimeOn
        when   == rocon.When + o.TimeOn
    IN  IF direct THEN Entry(ACSON, p.Starts, p)
        ELSE IF when > p.Ends THEN Entry(ACSON, ZeroTime, p)
        ELSE Entry(ACSON, when, p)

scheduleACSON(p, rocs, u, o) ==
    LET starts == p.Starts - o.TimeOn
        ends   == p.Starts + (o.WaitBeforeOn + o.TimeOn)
        rocon  == isNear(p, rocs, [i \in 1..Len(rocs) |->
                      IF rocs[i].Label # ROCON THEN FALSE
                      ELSE rocs[i].When > starts /\ rocs[i].When < ends])
        direct == EntryIsZero(rocon) \/ p.Starts > rocon.When + o.TimeOn
        when   == rocon.When + o.TimeOn
        en     == IF direct THEN Entry(ACSON, p.Starts, p) ELSE Entry(ACSON, when, p)
        rocoff == isNear(p, rocs, [i \in 1..Len(rocs) |->
                      IF rocs[i].Label # ROCOFF THEN FALSE
                      ELSE IF en.When = rocs[i].When THEN TRUE
                      ELSE en.When > rocs[i].When
                           /\ en.When < rocs[i].When + o.TimeOff])
    IN  IF ~direct /\ when > p.Ends THEN Entry(ACSON, ZeroTime, p)
        ELSE IF ~EntryIsZero(rocoff) THEN Entry(ACSON, ZeroTime, ZeroPeriod)
        ELSE en

\* A variant that switches ACS off at the end of the night, not of the aurora.
scheduleACSOFFNight(p, ecls, u, o) ==
    LET other == isCrossing(p, ecls, [i \in 1..Len(ecls) |-> ~(ecls[i].Ends < p.Ends - u.Time)])
    IN  IF PeriodIsZero(other) THEN Entry(ACSOFF, p.Ends - u.Time, p)
        ELSE Entry(ACSOFF, other.Ends - u.Time, p)

scheduleACSOFF(p, ecls, u, o) ==
    LET other  == isCrossing(p, ecls, [i \in 1..Len(ecls) |-> ~(ecls[i].Ends < p.Ends - u.Time)])
        acsoff == p.Ends - u.Time
        rocoff == other.Ends - o.TimeOff
    IN  IF PeriodIsZero(other) THEN Entry(ACSOFF, p.Ends - u.Time, p)
        ELSE IF acsoff < rocoff THEN Entry(ACSOFF, acsoff, p)
        ELSE IF p.Ends - u.Time = other.Ends - o.TimeOff
        THEN Entry(ACSOFF, rocoff - u.Time, p)
        ELSE Entry(ACSOFF, ZeroTime, p)

\* One iteration of the loop of ScheduleACS: the entries appended for p.
acsPair(p, ecls, rocs, u, o) ==
    LET on  == scheduleACSON(p, rocs, u, o)
        off == scheduleACSOFF(p, ecls, u, o)
    IN  IF ~Accept(u, p) THEN <<>>
        ELSE IF EntryIsZero(on) THEN <<>>
        ELSE IF ~EntryIsZero(off) /\ off.When > on.When + u.Time THEN <<on, off>>
        ELSE <<on>>

RECURSIVE acsLoop(_, _, _, _, _)
acsLoop(aurs, ecls, rocs, u, o) ==
    IF aurs = <<>> THEN <<>>
    ELSE acsPair(Head(aurs), ecls, rocs, u, o) \o acsLoop(Tail(aurs), ecls, rocs, u, o)

\* Mutant: ACS is planned without the ROC entries it needs.
ScheduleACSAlone(s, u, o, rocs) ==
    IF AurIsEmpty(u) THEN [entries |-> <<>>, err |-> ""]
    ELSE [entries |-> acsLoop(s.Auroras, s.Eclipses, rocs, u, o), err |-> ""]

\* ScheduleACS: the entries, and the error ("" when none).
ScheduleACS(s, u, o, rocs) ==
    IF AurIsEmpty(u) THEN [entries |-> <<>>, err |-> ""]
    ELSE IF Len(rocs) = 0
    THEN [entries |-> <<>>, err |-> "ACS: can not schedule without ROC"]
    ELSE [entries |-> acsLoop(s.Auroras, s.Eclipses, rocs, u, o), err |-> ""]

(***************************************************************************)
(* Merger: the end of Schedule.Schedule                                    *)
(***************************************************************************)
\* sort.Slice(es, less by When) is not a stable sort: any ordering of the
\* entries by non-decreasing When can come out.  ix is the set of indices
\* of ens still to be placed.
RECURSIVE Orderings(_, _)
Orderings(ix, ens) ==
    IF ix = {} THEN {<<>>}
    ELSE LET firsts == {i \in ix : \A j \in ix : ~(ens[j].When < ens[i].When)}
         IN  UNION {{<<ens[i]>> \o t : t \in Orderings(ix \ {i}, ens)} : i \in firsts}

\* Mutant: the entries are returned as concatenated.
SortByWhenNone(ens) == {ens}

SortByWhen(ens) == Orderings(1..Len(ens), ens)

\* Schedule.Schedule(roc, cer, aur) on the current schedule.
Plan(rocSet, cerSet, aurSet) ==
    /\ pc \in {"loaded", "filtered"}
    /\ \E o \in rocSet, c \in cerSet, u \in aurSet :
          LET rocs == ScheduleROC(Current, o)
              cers == ScheduleCER(Current, c, o, rocs)
              acss == ScheduleACS(Current, u, o, rocs)
          IN  /\ roc' = o /\ cer' = c /\ aur' = u
              /\ rs' = rocs
              /\ IF cers.err # ""
                 THEN /\ err' = cers.err
                      /\ as' = <<>> /\ cs' = <<>> /\ es' = <<>>
                 ELSE IF acss.err # ""
                 THEN /\ err' = acss.err
                      /\ as' = cers.entries /\ cs' = <<>> /\ es' = <<>>
                 ELSE /\ err' = ""
                      /\ as' = cers.entries /\ cs' = acss.entries
                      /\ es' \in SortByWhen(rocs \o cers.entries \o acss.entries)
    /\ pc' = "scheduled"
    /\ UNCHANGED <<e, a, x, last, rows, Eclipses, Saas, Auroras, Ignore, base, prev>>
    /\ UNCHANGED callVars

\* No call of Period.Intersect on its own is in progress.
NoCall == recv = ZeroPeriod /\ arg = ZeroPeriod /\ delta = 0

Init ==
    /\ pc = "reading"
    /\ NoCall
    /\ e = ZeroPeriod /\ a = ZeroPeriod /\ x = ZeroPeriod
    /\ last = ZeroTime
    /\ rows = 0
    /\ Eclipses = <<>> /\ Saas = <<>> /\ Auroras = <<>>
    /\ Ignore = FALSE
    /\ base = ZeroTime
    /\ prev = Sched(<<>>, <<>>, <<>>, FALSE)
    /\ roc = ZeroRoc /\ cer = ZeroCer /\ aur = ZeroAur
    /\ rs = <<>> /\ as = <<>> /\ cs = <<>> /\ es = <<>>
    /\ err = ""

Next == Read \/ ReadBadRow \/ EndOfStream \/ SetIgnore \/ Filter

Spec == Init /\ [][Next]_vars

(***************************************************************************)
(* The ROC planner alone: CER and ACS disabled, no area configured         *)
(***************************************************************************)
RocRows == 6

RocOptions ==
    [TimeSAA : {0, 1}, TimeAZM : {0, 1, 2}, TimeOn : {0, 1, 2}, TimeOff : {0, 1},
     TimeBetween : {0, 1}, WaitBeforeOn : {0, 1}]

ReadNoArea == ReadIn(RocRows, {Resolution}, {FALSE})

PlanROC == Plan(RocOptions, {ZeroCer}, {ZeroAur})

NextROC == ReadNoArea \/ EndOfStream \/ SetIgnore \/ PlanROC

SpecROC == Init /\ [][NextROC]_vars

(***************************************************************************)
(* The CER planner: a few ROC bundles, no ACS, no area configured          *)
(***************************************************************************)
RocFew ==
    {[TimeSAA |-> 1, TimeAZM |-> 1, TimeOn |-> 1, TimeOff |-> 1,
      TimeBetween |-> 1, WaitBeforeOn |-> 1],
     [TimeSAA |-> 0, TimeAZM |-> 1, TimeOn |-> 1, TimeOff |-> 1,
      TimeBetween |-> 0, WaitBeforeOn |-> 0]}

CerOptions ==
    [SwitchTime : {0, 2}, SaaCrossingTime : {0, 1}, BeforeSaa : {0, 1}, AfterSaa : {0, 1},
     BeforeRoc : {0, 1}, AfterRoc : {0, 1}, TimeOn : {1}, TimeOff : {1}]

PlanCER == Plan(RocFew, CerOptions, {ZeroAur})

NextCER == ReadNoArea \/ EndOfStream \/ SetIgnore \/ PlanCER

SpecCER == Init /\ [][NextCER]_vars

(***************************************************************************)
(* The three planners together, with an area configured                    *)
(***************************************************************************)
AllRows == 5

CerFew ==
    {ZeroCer,
     [SwitchTime |-> 0, SaaCrossingTime |-> 1, BeforeSaa |-> 1, AfterSaa |-> 1,
      BeforeRoc |-> 1, AfterRoc |-> 1, TimeOn |-> 1, TimeOff |-> 1],
     [SwitchTime |-> 2, SaaCrossingTime |-> 1, BeforeSaa |-> 1, AfterSaa |-> 1,
      BeforeRoc |-> 1, AfterRoc |-> 1, TimeOn |-> 1, TimeOff |-> 1]}

AurOptions == [Night : {0, 1, 2}, Time : {0, 1}]

ReadArea == ReadIn(AllRows, {Resolution}, BOOLEAN)

PlanAll == Plan(RocFew, CerFew, AurOptions)

NextAll == ReadArea \/ EndOfStream \/ SetIgnore \/ PlanAll

SpecAll == Init /\ [][NextAll]_vars

(***************************************************************************)
(* Period.Intersect on its own: any two periods with Starts <= Ends        *)
(***************************************************************************)
MaxInstant == 4

Periods ==
    {Period("", FirstTime + q[1], FirstTime + q[2]) :
        q \in {r \in (0..MaxInstant) \X (0..MaxInstant) : r[1] <= r[2]}}

InitCall ==
    /\ pc = "call"
    /\ recv \in Periods /\ arg \in Periods
    /\ delta = 0
    /\ e = ZeroPeriod /\ a = ZeroPeriod /\ x = ZeroPeriod
    /\ last = ZeroTime
    /\ rows = 0
    /\ Eclipses = <<>> /\ Saas = <<>> /\ Auroras = <<>>
    /\ Ignore = FALSE
    /\ base = ZeroTime
    /\ prev = Sched(<<>>, <<>>, <<>>, FALSE)
    /\ roc = ZeroRoc /\ cer = ZeroCer /\ aur = ZeroAur
    /\ rs = <<>> /\ as = <<>> /\ cs = <<>> /\ es = <<>>
    /\ err = ""

\* delta := p.Intersect(o)
CallIntersect ==
    /\ pc = "call"
    /\ delta' = Intersect(recv, arg)
    /\ pc' = "returned"
    /\ UNCHANGED <<recv, arg, e, a, x, last, rows, Eclipses, Saas, Auroras, Ignore,
                   base, prev, roc, cer, aur, rs, as, cs, es, err>>

NextCall == CallIntersect

SpecCall == InitCall /\ [][NextCall]_vars

(***************************************************************************)
(* The planners on schedules of whole nights, with the default options     *)
(***************************************************************************)
\* The instant hh:mm:ss of the day of the trajectory, in seconds.
Clock(hh, mm, ss) == (hh * 60 + mm) * 60 + ss

rocDefault ==
    [TimeSAA |-> 10, TimeAZM |-> 40, TimeOn |-> 50, TimeOff |-> 80,
     TimeBetween |-> 120, WaitBeforeOn |-> 100]

cerDefault ==
    [SwitchTime |-> 0, SaaCrossingTime |-> 120, BeforeSaa |-> 50, AfterSaa |-> 15,
     BeforeRoc |-> 45, AfterRoc |-> 10, TimeOn |-> 40, TimeOff |-> 40]

aurDefault == [Night |-> 180, Time |-> 5]

\* cerDefault in outside mode: switch-onoff-time = 300s.
cerOutside == [cerDefault EXCEPT !.SwitchTime = 300]

Night0100 == Period("eclipse", Clock(1, 0, 0), Clock(1, 30, 0))
Night0200 == Period("eclipse", Clock(2, 0, 0), Clock(2, 35, 0))
Night0300 == Period("eclipse", Clock(3, 0, 0), Clock(3, 40, 0))
Night0400 == Period("eclipse", Clock(4, 0, 0), Clock(4, 3, 0))
Night0500 == Period("eclipse", Clock(5, 0, 0), Clock(5, 30, 0))

Saa0200 == Period("saa", Clock(2, 0, 30), Clock(2, 10, 0))
Saa0310 == Period("saa", Clock(3, 10, 0), Clock(3, 35, 0))
Saa0302 == Period("saa", Clock(3, 2, 10), Clock(3, 35, 0))

Aurora0510 == Period("aurora", Clock(5, 10, 0), Clock(5, 15, 0))

\* The schedules listPeriods extracts from trajectories of one night each.
Nights ==
    {Sched(<<Night0100>>, <<>>, <<>>, FALSE),
     Sched(<<Night0200>>, <<Saa0200>>, <<>>, FALSE),
     Sched(<<Night0300>>, <<Saa0310>>, <<>>, FALSE),
     Sched(<<Night0300>>, <<Saa0302>>, <<>>, FALSE),
     Sched(<<Night0400>>, <<>>, <<>>, FALSE),
     Sched(<<Night0500>>, <<>>, <<Aurora0510>>, FALSE)}

\* The state when listPeriods has returned one of these schedules.
InitNights ==
    /\ pc = "loaded"
    /\ NoCall
    /\ \E s \in Nights :
          /\ Eclipses = s.Eclipses /\ Saas = s.Saas /\ Auroras = s.Auroras
          /\ Ignore = s.Ignore
    /\ e = ZeroPeriod /\ a = ZeroPeriod /\ x = ZeroPeriod
    /\ last = ZeroTime
    /\ rows = 0
    /\ base = ZeroTime
    /\ prev = Sched(<<>>, <<>>, <<>>, FALSE)
    /\ roc = ZeroRoc /\ cer = ZeroCer /\ aur = ZeroAur
    /\ rs = <<>> /\ as = <<>> /\ cs = <<>> /\ es = <<>>
    /\ err = ""

\* The option bundles tried on them: the defaults, or the family disabled.
NightRocs == {rocDefault, ZeroRoc}

NightCers == {cerDefault, cerOutside, ZeroCer}

NightAurs == {aurDefault, ZeroAur}

PlanNights == Plan(NightRocs, NightCers, NightAurs)

NextNights == SetIgnore \/ PlanNights

SpecNights == InitNights /\ [][NextNights]_vars

(***************************************************************************)
(* The ROC planner with commands that last two seconds                     *)
(***************************************************************************)
RocLong ==
    [TimeSAA : {0, 1}, TimeAZM : {0, 1}, TimeOn : {0, 2}, TimeOff : {0, 2},
     TimeBetween : {0}, WaitBeforeOn : {0, 1}]

PlanLong == Plan(RocLong, {ZeroCer}, {ZeroAur})

NextLong == ReadNoArea \/ EndOfStream \/ SetIgnore \/ PlanLong

SpecLong == Init /\ [][NextLong]_vars

(***************************************************************************)
(* Filter, then the three planners: s.Filter(b).Schedule(...)              *)
(***************************************************************************)
AurFew == {ZeroAur, [Night |-> 0, Time |-> 1]}

PlanFiltered == Plan(RocFew, CerFew, AurFew)

NextFiltered == ReadArea \/ EndOfStream \/ Filter \/ PlanFiltered

SpecFiltered == Init /\ [][NextFiltered]_vars

(***************************************************************************)
(* Properties                                                              *)
(***************************************************************************)
Done == pc = "scheduled" /\ err = ""

\* The ROCON/ROCOFF pairs of a list of entries: the entries of one eclipse.
RocPairs(ens) ==
    {<<i, j>> \in (1..Len(ens)) \X (1..Len(ens)) :
        /\ ens[i].Label = ROCON /\ ens[j].Label = ROCOFF
        /\ ens[i].Period = ens[j].Period}

\* C2: every pair of ROC entries emitted without warning leaves more than
\* TimeOn between ROCON and ROCOFF and, when TimeBetween is set, more than
\* TimeBetween between the end of ROCON and ROCOFF.
RocGapLowerBound ==
    Done =>
        \A pr \in RocPairs(rs) :
            LET rocon == rs[pr[1]]  rocoff == rs[pr[2]]
            IN  ~rocon.Warning /\ ~rocoff.Warning =>
                    /\ rocoff.When - rocon.When > roc.TimeOn
                    /\ roc.TimeBetween > 0 =>
                          rocoff.When - (rocon.When + roc.TimeOn) > roc.TimeBetween

\* A run in permissive mode that emits a pair without warning under a
\* TimeBetween constraint, next to a pair with warning.
RocGapWitness ==
    /\ Done /\ Ignore /\ roc.TimeBetween > 0
    /\ \E pr \in RocPairs(rs) : ~rs[pr[1]].Warning /\ ~rs[pr[2]].Warning
    /\ \E pr \in RocPairs(rs) : rs[pr[1]].Warning /\ rs[pr[2]].Warning

\* The SAA boundaries (entries and exits) of the SAAs overlapping an eclipse.
Boundaries(ec, saas) ==
    {saas[i].Starts : i \in {k \in 1..Len(saas) : Overlaps(ec, saas[k])}}
    \cup {saas[i].Ends : i \in {k \in 1..Len(saas) : Overlaps(ec, saas[k])}}

Dist(m, n) == IF m < n THEN n - m ELSE m - n

Nearest(t, bs) == {b \in bs : \A c \in bs : Dist(t, b) <= Dist(t, c)}

StartsInside(when, b, azm) == b < when /\ when < b + azm

FullyContains(when, on, b, azm) == when <= b /\ b + azm <= when + on

\* C3: with ignore=false, the execution window of every emitted ROCON
\* neither starts inside nor fully contains the AZM window of the boundary
\* nearest to it among the entries and exits of the SAAs overlapping its
\* eclipse (stated for a non-empty AZM window and where that boundary is
\* unique).
AzmAvoidance ==
    Done /\ ~Ignore /\ roc.TimeAZM > 0 =>
        \A i \in 1..Len(rs) :
            LET near == Nearest(rs[i].When, Boundaries(rs[i].Period, Saas))
            IN  rs[i].Label = ROCON /\ Cardinality(near) = 1 =>
                    \A b \in near :
                        /\ ~StartsInside(rs[i].When, b, roc.TimeAZM)
                        /\ ~FullyContains(rs[i].When, roc.TimeOn, b, roc.TimeAZM)

LabelsOf(ens, labels) == SelectSeq([i \in 1..Len(ens) |-> ens[i].Label], LAMBDA l : l \in labels)

\* first, second, first, second, ...
Alternates(ls, first, second) ==
    \A i \in 1..Len(ls) : ls[i] = IF i % 2 = 1 THEN first ELSE second

\* C4 as stated: for any ignore setting, ROCON and ROCOFF strictly alternate
\* in the merged list, starting with ROCON.
RocAlternatesAlways ==
    Done => Alternates(LabelsOf(es, {ROCON, ROCOFF}), ROCON, ROCOFF)

NoWarning(ens) == SelectSeq(ens, LAMBDA en : ~en.Warning)

\* C4 (amended): with ignore=false, ROCON and ROCOFF strictly alternate in
\* the merged list, starting with ROCON; with ignore=true the entries
\* emitted without warning do.
RocAlternatesStrict ==
    Done =>
        /\ Alternates(LabelsOf(NoWarning(es), {ROCON, ROCOFF}), ROCON, ROCOFF)
        /\ ~Ignore => NoWarning(es) = es

\* Two eclipses, each with its pair, in strict mode.
RocAlternatesWitness ==
    Done /\ ~Ignore /\ Len(LabelsOf(es, {ROCON, ROCOFF})) = 4

\* C1: the entries returned by a successful Schedule() are ordered by time.
Monotonic ==
    Done => \A i \in 1..(Len(es) - 1) : es[i].When <= es[i + 1].When

HasLabel(ens, l) == \E i \in 1..Len(ens) : ens[i].Label = l

\* A successful run of the three planners whose concatenated output was not
\* in time order before the merge.
MonotonicWitness ==
    /\ Done
    /\ HasLabel(es, ROCON) /\ HasLabel(es, CERON) /\ HasLabel(es, ACSON)
    /\ \E i \in 1..(Len(es) - 1) : (rs \o as \o cs)[i].When > (rs \o as \o cs)[i + 1].When

\* The entries of a list with a given label and period.
EntriesOf(ens, l, p) == {i \in 1..Len(ens) : ens[i].Label = l /\ ens[i].Period = p}

\* C5: for every aurora the ACS planner emits both ACSON and ACSOFF, with
\* ACSOFF more than aur.Time after ACSON, or neither of them.
AcsPairsComplete ==
    Done =>
        \A k \in 1..Len(Auroras) :
            LET ons  == EntriesOf(cs, ACSON, Auroras[k])
                offs == EntriesOf(cs, ACSOFF, Auroras[k])
            IN  \/ ons = {} /\ offs = {}
                \/ /\ Cardinality(ons) = 1 /\ Cardinality(offs) = 1
                   /\ \A i \in ons, j \in offs : cs[j].When > cs[i].When + aur.Time

\* Between two adjacent entries labelled outer there is exactly one entry
\* labelled inner.
OneBetween(ens, outer, inner) ==
    \A i, j \in 1..Len(ens) :
        /\ i < j
        /\ ens[i].Label = outer /\ ens[j].Label = outer
        /\ \A k \in (i + 1)..(j - 1) : ens[k].Label # outer
        => Cardinality({k \in (i + 1)..(j - 1) : ens[k].Label = inner}) = 1

\* C6: in inside mode, between two adjacent CEROFF of the merged list there
\* is exactly one CERON.
CerAlternates ==
    Done /\ ~CerIsEmpty(cer) /\ cer.SwitchTime = 0 => OneBetween(es, CEROFF, CERON)

Families == <<Eclipses, Saas, Auroras>>

PeriodsPositive ==
    pc = "loaded" =>
        \A f \in 1..3 : \A i \in 1..Len(Families[f]) :
            Families[f][i].Starts < Families[f][i].Ends

\* The periods appended to a family by a step.
Appended(old, new) == {new[i] : i \in (Len(old) + 1)..Len(new)}

\* C8 (amended): every extracted period has Starts <= Ends, and a period
\* closed by the row that follows its opening row has Starts = Ends.
PeriodsNonNegative ==
    /\ [](\A f \in 1..3 : \A i \in 1..Len(Families[f]) :
              Families[f][i].Starts <= Families[f][i].Ends)
    /\ [][pc = "reading" /\ pc' = "reading" =>
              /\ e.Starts = last => \A p \in Appended(Eclipses, Eclipses') : p.Starts = p.Ends
              /\ a.Starts = last => \A p \in Appended(Saas, Saas') : p.Starts = p.Ends
              /\ x.Starts = last => \A p \in Appended(Auroras, Auroras') : p.Starts = p.Ends]_vars

\* An extracted schedule with a period of one sample and a longer one.
PeriodsNonNegativeWitness ==
    /\ pc = "loaded"
    /\ \E i \in 1..Len(Eclipses) : Eclipses[i].Starts = Eclipses[i].Ends
    /\ \E i \in 1..Len(Eclipses) : Eclipses[i].Starts < Eclipses[i].Ends

\* C9: filtering a filtered schedule again at the same instant changes nothing.
FilterIdempotent ==
    pc = "filtered" => FilterSchedule(Current, base) = Current

\* A filtering that dropped an eclipse and an aurora and kept an eclipse.
FilterIdempotentWitness ==
    /\ pc = "filtered" /\ base # ZeroTime
    /\ Len(Eclipses) = 1 /\ Len(prev.Eclipses) = 2
    /\ Len(Auroras) = 0 /\ Len(prev.Auroras) = 1

\* C10: after Filter at a non-zero instant every retained period starts
\* strictly after it.
FilterStrict ==
    pc = "filtered" /\ base # ZeroTime =>
        \A f \in 1..3 : \A i \in 1..Len(Families[f]) : Families[f][i].Starts > base

\* A filtering that removed an eclipse starting at the instant itself and
\* kept a later one.
FilterStrictWitness ==
    /\ pc = "filtered" /\ base # ZeroTime
    /\ \E i \in 1..Len(prev.Eclipses) : prev.Eclipses[i].Starts = base
    /\ Len(Eclipses) >= 1

MinDuration(m, n) == IF m < n THEN m ELSE n

\* C11: p.Intersect(o) is at most the shorter of the two durations, and is
\* zero when the periods do not overlap.
IntersectBounded ==
    pc = "returned" =>
        /\ delta <= MinDuration(Duration(recv), Duration(arg))
        /\ ~Overlaps(recv, arg) => delta = 0

\* The entry with the given label and instant is in the list.
Emits(ens, label, when) == \E i \in 1..Len(ens) : ens[i].Label = label /\ ens[i].When = when

\* C12: in outside mode every CER entry is emitted SwitchTime before the
\* start of an eclipse; the night of 01:00:00 without SAA yields ROCON at
\* 01:01:40, ROCOFF at 01:28:40 and CEROFF at 00:55:00.
OutsideAtSwitchTime ==
    Done /\ cer.SwitchTime > 0 =>
        /\ \A i \in 1..Len(as) :
               \E k \in 1..Len(Eclipses) : as[i].When = Eclipses[k].Starts - cer.SwitchTime
        /\ Eclipses = <<Night0100>> /\ roc = rocDefault =>
               /\ Emits(es, ROCON, Clock(1, 1, 40))
               /\ Emits(es, ROCOFF, Clock(1, 28, 40))
               /\ Emits(es, CEROFF, Clock(0, 55, 0))

\* CER in inside mode or ACS is enabled: a planner that needs the ROC list.
NeedsRoc == (~CerIsEmpty(cer) /\ cer.SwitchTime = 0) \/ ~AurIsEmpty(aur)

\* C13: when the ROC list is empty and CER in inside mode or ACS is
\* enabled, Schedule() returns an error and no entry.
MissingRocFails ==
    pc = "scheduled" /\ rs = <<>> /\ NeedsRoc => err # "" /\ es = <<>>

\* ROC is enabled, its only pair was rejected, and ACS is enabled.
MissingRocWitness ==
    /\ pc = "scheduled" /\ rs = <<>> /\ ~RocIsEmpty(roc) /\ ~AurIsEmpty(aur)
    /\ Eclipses # <<>> /\ err # ""

\* The pair validation of the ROC planner, on a ROCON and a ROCOFF.
Rejected(on, off) ==
    \/ roc.TimeBetween > 0 /\ off.When - (on.When + roc.TimeOn) <= roc.TimeBetween
    \/ off.When <= on.When + roc.TimeOn

\* C14: with ignore=true every eclipse gets exactly one ROCON and one
\* ROCOFF, which carry a warning exactly when the pair fails the
\* validation; with ignore=false no entry carries a warning, a pair that
\* fails the validation is not emitted and every other pair is.
IgnoreHandling ==
    Done /\ ~RocIsEmpty(roc) =>
        \A k \in 1..Len(Eclipses) :
            LET ons   == EntriesOf(rs, ROCON, Eclipses[k])
                offs  == EntriesOf(rs, ROCOFF, Eclipses[k])
                rocon  == scheduleROCON(Eclipses[k], FirstSaa(Eclipses[k], Saas), roc)
                rocoff == scheduleROCOFF(Eclipses[k], LastSaa(Eclipses[k], Saas), roc)
            IN  /\ Ignore =>
                      /\ Cardinality(ons) = 1 /\ Cardinality(offs) = 1
                      /\ \A i \in ons, j \in offs :
                             /\ rs[i].Warning = Rejected(rs[i], rs[j])
                             /\ rs[j].Warning = Rejected(rs[i], rs[j])
                /\ ~Ignore =>
                      /\ \A i \in ons \cup offs : ~rs[i].Warning
                      /\ \A i \in ons, j \in offs : ~Rejected(rs[i], rs[j])
                      /\ IF Rejected(rocon, rocoff)
                         THEN ons = {} /\ offs = {}
                         ELSE Cardinality(ons) = 1 /\ Cardinality(offs) = 1

\* Two eclipses in permissive mode: one pair with a warning, one without.
IgnoreHandlingWitness ==
    /\ Done /\ Ignore /\ Len(Eclipses) = 2 /\ Len(rs) = 4
    /\ \E i \in 1..Len(rs) : rs[i].Warning
    /\ \E i \in 1..Len(rs) : ~rs[i].Warning

\* C15: the extractor fails with NoPeriods exactly when the stream ended
\* with no eclipse and no SAA closed, whatever the auroras.
NoPeriodsExactly ==
    /\ pc = "failed" /\ err = "NoPeriods" => Eclipses = <<>> /\ Saas = <<>>
    /\ pc = "loaded" => Eclipses # <<>> \/ Saas # <<>>

\* A stream with a closed aurora, and no closed eclipse or SAA, is refused.
NoPeriodsWitness ==
    pc = "failed" /\ err = "NoPeriods" /\ Auroras # <<>>

\* The stable sort of a list of entries by When: an entry goes after the
\* entries that are earlier, and after those of the same instant that
\* precede it in the list.
StableByWhen(ens) ==
    LET n == Len(ens)
        rank(i) == 1 + Cardinality({j \in 1..n :
                          \/ ens[j].When < ens[i].When
                          \/ ens[j].When = ens[i].When /\ j < i})
    IN  [k \in 1..n |-> ens[CHOOSE i \in 1..n : rank(i) = k]]

\* C16: entries of the same instant keep the order of the concatenation
\* ROC, CER, ACS: the merged list is its stable sort by When.
StableMerge ==
    Done => es = StableByWhen(rs \o as \o cs)

\* C17: the night of 03:00:00 with the SAA [03:02:10, 03:35:00], default
\* options, CER in inside mode: ROCON is emitted at 03:01:40 and CERON at
\* 03:00:55.
CeronBeforeRocon ==
    Done /\ Eclipses = <<Night0300>> /\ Saas = <<Saa0302>>
         /\ roc = rocDefault /\ cer = cerDefault =>
        /\ Emits(es, ROCON, Clock(3, 1, 40))
        /\ Emits(es, CERON, Clock(3, 0, 55))

\* The night of 05:00:00 with its aurora, planned with the default ROC and
\* ACS options.
AuroraNight ==
    /\ Done /\ Eclipses = <<Night0500>> /\ Auroras = <<Aurora0510>>
    /\ roc = rocDefault /\ aur = aurDefault

\* C18 as stated: ACSON is emitted at 05:10:00 and ACSOFF at 05:29:55.
AcsoffAtNightEnd ==
    AuroraNight =>
        /\ Emits(rs, ROCON, Clock(5, 1, 40))
        /\ Emits(cs, ACSON, Clock(5, 10, 0))
        /\ Emits(cs, ACSOFF, Clock(5, 29, 55))

\* C18 (amended): ACSON is emitted at 05:10:00 and ACSOFF at 05:14:55,
\* aur.Time before the end of the aurora, and nothing else by ACS.
AcsoffAtAuroraEnd ==
    AuroraNight =>
        /\ Emits(rs, ROCON, Clock(5, 1, 40))
        /\ Len(cs) = 2
        /\ Emits(cs, ACSON, Clock(5, 10, 0))
        /\ Emits(cs, ACSOFF, Clock(5, 14, 55))

AcsoffWitness == AuroraNight /\ Len(cs) = 2 /\ Len(rs) = 2

\* p lies within o: o.Starts <= p.Starts and p.Ends <= o.Ends.
SubInterval(p, o) == o.Starts <= p.Starts /\ p.Ends <= o.Ends

\* C19: after the extraction every aurora is a sub-interval of an extracted
\* eclipse.
AuroraInsideEclipse ==
    pc = "loaded" =>
        \A i \in 1..Len(Auroras) :
            \E j \in 1..Len(Eclipses) : SubInterval(Auroras[i], Eclipses[j])

\* An eclipse of ecls that began at t or before and that au starts strictly
\* inside.
InDroppedEclipse(au, ecls, t) ==
    \E j \in 1..Len(ecls) :
        /\ ecls[j].Starts <= t
        /\ ecls[j].Starts < au.Starts
        /\ au.Starts < ecls[j].Ends

\* C20: Filter(t), t not zero, retains an aurora exactly when it starts after
\* t and does not start strictly inside an eclipse that began at t or before.
FilterAuroras ==
    pc = "filtered" /\ base # ZeroTime =>
        \A i \in 1..Len(prev.Auroras) :
            (\E k \in 1..Len(Auroras) : Auroras[k] = prev.Auroras[i])
                <=> /\ prev.Auroras[i].Starts > base
                    /\ ~InDroppedEclipse(prev.Auroras[i], prev.Eclipses, base)

\* The crossing result of an eclipse in outside mode: some SAA intersects it
\* for longer than the threshold, or the threshold is zero.
Polarity(ec) ==
    \/ cer.SaaCrossingTime = 0
    \/ \E i \in 1..Len(Saas) : Intersect(ec, Saas[i]) > cer.SaaCrossingTime

\* Number of maximal runs of consecutive eclipses with the same crossing
\* result.
PolarityRuns ==
    IF Eclipses = <<>> THEN 0
    ELSE 1 + Cardinality({i \in 1..(Len(Eclipses) - 1) :
                             Polarity(Eclipses[i]) # Polarity(Eclipses[i + 1])})

OutsideMode == Done /\ ~CerIsEmpty(cer) /\ cer.SwitchTime # 0

\* C21: in outside mode the CER planner emits one entry per polarity change
\* along the eclipses: at least one when there is an eclipse, never the same
\* label twice in a row, and as many entries as there are runs of eclipses
\* with the same crossing result.
OnePerPolarityChange ==
    OutsideMode =>
        /\ Eclipses # <<>> => Len(as) >= 1
        /\ \A i \in 1..(Len(as) - 1) : as[i].Label # as[i + 1].Label
        /\ Len(as) = PolarityRuns

\* Two eclipses of opposite polarity under a threshold, and hence two entries.
OnePerPolarityChangeWitness ==
    OutsideMode /\ cer.SaaCrossingTime > 0 /\ Len(Eclipses) = 2 /\ Len(as) = 2

InsideMode == Done /\ ~CerIsEmpty(cer) /\ cer.SwitchTime = 0

\* The duration of a CER command.
cerDuration(c) == IF c.Label = CERON THEN cer.TimeOn ELSE cer.TimeOff

\* The start or the end of the CER command c falls in the execution window
\* of the ROC command r.
Conflict(r, c) ==
    \/ isBetween(r.When, r.When + rocDuration(r, roc), c.When)
    \/ isBetween(r.When, r.When + rocDuration(r, roc), c.When + cerDuration(c))

\* C22: in inside mode no emitted CER entry is in conflict with a ROC entry.
NoConflictLeft ==
    InsideMode =>
        \A i \in 1..Len(as) : \A j \in 1..Len(rs) : ~Conflict(rs[j], as[i])

\* C23: every ROCOFF of the ROC planner, with or without warning, lies
\* within the eclipse it was planned for.
RocoffWithinEclipse ==
    Done =>
        \A i \in 1..Len(rs) :
            rs[i].Label = ROCOFF =>
                /\ rs[i].Period.Starts <= rs[i].When
                /\ rs[i].When <= rs[i].Period.Ends

\* C24: a period closed by a row ends at the timestamp of the row before,
\* strictly before the timestamp of the closing row.
ClosedAtPreviousRow ==
    [][pc = "reading" /\ pc' = "reading" =>
          \A f \in 1..3 :
              \A p \in Appended(Families[f], Families'[f]) :
                  p.Ends = last /\ p.Ends < last']_vars

\* A row has just closed an eclipse, an SAA and an aurora opened earlier.
ClosedAtPreviousRowWitness ==
    /\ pc = "reading" /\ rows >= 3
    /\ PeriodIsZero(e) /\ PeriodIsZero(a) /\ PeriodIsZero(x)
    /\ \A f \in 1..3 :
           \E i \in 1..Len(Families[f]) :
               /\ Families[f][i].Starts < Families[f][i].Ends
               /\ Families[f][i].Ends < last
               /\ Families[f][i].Ends + 2 * Resolution >= last

\* The open period of each family, in the order of Families.
Opens == <<e, a, x>>

SameLists(old, new) == Len(old) = Len(new) /\ Appended(<<>>, old) = Appended(<<>>, new)

\* C25: the end of the stream emits no period, whatever is still open, and
\* a row emits a period only by closing one that an earlier row opened.
OpenNeverEmitted ==
    [][pc = "reading" =>
          \A f \in 1..3 :
              IF pc' = "reading"
              THEN \A p \in Appended(Families[f], Families'[f]) :
                       /\ ~PeriodIsZero(Opens[f])
                       /\ p.Starts = Opens[f].Starts
                       /\ p.Starts <= last /\ last < last'
              ELSE SameLists(Families[f], Families'[f])]_vars

\* The stream ended with an aurora closed and the eclipse it was found in
\* still open: no eclipse was extracted.
OpenNeverEmittedWitness ==
    pc = "loaded" /\ Auroras # <<>> /\ Eclipses = <<>>

\* C26: every ROCON is at or after its candidate, the start of its eclipse
\* plus WaitBeforeOn, and every ROCOFF at or before its candidate, the end of
\* its eclipse minus TimeOff.
RewritesOneWay ==
    Done =>
        \A i \in 1..Len(rs) :
            /\ rs[i].Label = ROCON => rs[i].When >= rs[i].Period.Starts + roc.WaitBeforeOn
            /\ rs[i].Label = ROCOFF => rs[i].When <= rs[i].Period.Ends - roc.TimeOff

\* C27: after Filter at a non-zero instant, Schedule() returns no entry at
\* or before that instant.
NothingBeforeBase ==
    Done /\ base # ZeroTime =>
        \A i \in 1..Len(es) : es[i].When > base

\* C28: every ACSON lies within its aurora, and at no ROCOFF that isNear
\* reaches for that aurora is it timed in the window [When, When + TimeOff).
AcsonPlacement ==
    Done =>
        \A i \in 1..Len(cs) :
            cs[i].Label = ACSON =>
                /\ cs[i].Period.Starts <= cs[i].When
                /\ cs[i].When <= cs[i].Period.Ends
                /\ \A j \in 1..ScannedEntries(cs[i].Period, rs) :
                       rs[j].Label = ROCOFF =>
                           ~(rs[j].When <= cs[i].When /\ cs[i].When < rs[j].When + roc.TimeOff)

\* An ACSON delayed to the end of the ROCON of its night, with the ROCOFF of
\* that night reached by the scan.
AcsonPlacementWitness ==
    /\ Done
    /\ \E i \in 1..Len(cs) :
           /\ cs[i].Label = ACSON
           /\ cs[i].When > cs[i].Period.Starts
           /\ \E j \in 1..ScannedEntries(cs[i].Period, rs) : rs[j].Label = ROCOFF

\* The eclipses that the loop of scheduleInsideCER does not skip.
NotSkipped == SelectSeq(Eclipses, LAMBDA ec : ~insideSkips(ec, Saas, cer))

\* C29: in inside mode every eclipse that is not skipped contributes one
\* CERON and one CEROFF, for the span of its SAAs, and the CERON is strictly
\* before the CEROFF.
CeronBeforeCeroff ==
    InsideMode =>
        /\ Len(as) = 2 * Len(NotSkipped)
        /\ \A k \in 1..Len(NotSkipped) :
               /\ as[2 * k - 1].Label = CERON /\ as[2 * k].Label = CEROFF
               /\ as[2 * k - 1].Period = saaSpan(NotSkipped[k], Saas)
               /\ as[2 * k].Period = saaSpan(NotSkipped[k], Saas)
               /\ as[2 * k - 1].When < as[2 * k].When

\* C30: p.Intersect(o) = o.Intersect(p).
IntersectSymmetric ==
    pc = "returned" => delta = Intersect(arg, recv)

====
